---- MODULE Spec2Model ----
(***************************************************************************)
(* gpio-fan: a fan controller that samples CPU utilisation and CPU-package *)
(* temperature once a second, keeps rolling measurements over several      *)
(* intervals and decides whether the fan is on (src/src/main.rs).          *)
(*                                                                         *)
(* Numbers.  Samples are f32 in the source; here they are integers and an  *)
(* average is the exact fraction [num, den] (den >= 1), compared by cross  *)
(* multiplication.  The sums of the small integral samples used here are   *)
(* exact in f32, the thresholds (10, 31, 15.5) are exactly representable   *)
(* and every quotient differs from a threshold by far more than one ulp,   *)
(* so every comparison below has the outcome the f32 comparison has.       *)
(*                                                                         *)
(* Option<T> is a sequence of length at most one: <<>> is None, <<x>> is   *)
(* Some(x).  fan_on : Option<bool> is written "Unknown" (None), "On"       *)
(* (Some(true)) and "Off" (Some(false)).                                   *)
(***************************************************************************)
EXTENDS Integers, Sequences, FiniteSets, TLC

VARIABLES
    cpu,          \* Usage.cpu: Vec<Measurement>
    temperature,  \* Usage.temperature: Vec<Measurement>
    max_temp,     \* Usage.max_temp: Option<f32>
    system,       \* Usage.system: what the last refresh read (cores' usages, components)
    fan_on,       \* FanControl.fan_on: Option<bool>
    fan_output,   \* value driven on FanControl.fan_output (the GPIO line), None while never driven
    pc,           \* position of main: "new", "update", "verbose", "sleep", "panicked"
    ticks,        \* number of calls of FanControl::update made so far
    cpu_fed,      \* history: the raw samples passed to the cpu measurements
    temp_fed,     \* history: the raw samples passed to the temperature measurements
    scenario      \* bookkeeping of the scripted end-to-end run ("free" when inputs are arbitrary)

vars == <<cpu, temperature, max_temp, system, fan_on, fan_output, pc, ticks, cpu_fed, temp_fed, scenario>>

-----------------------------------------------------------------------------
(* Bounds of the exploration *)

MaxTicks == 5
MaxPre == 5
MaxScenarioTicks == 10

-----------------------------------------------------------------------------
(* Configuration compiled into main *)

cpu_intervals == <<3, 10, 60>>
temp_intervals == <<5, 30, 60>>
max_fan_on_temp == 31
max_fan_on_cpu == 10
CPU_COMPONENT_LABEL == "coretemp"

-----------------------------------------------------------------------------
(* Exact fractions standing for f32 values *)

Rat(n) == [num |-> n, den |-> 1]
Half(n) == [num |-> n, den |-> 2]
RatGT(a, b) == a.num * b.den > b.num * a.den
RatEq(a, b) == a.num * b.den = b.num * a.den

RECURSIVE SumSeq(_)
SumSeq(s) == IF s = <<>> THEN 0 ELSE s[1] + SumSeq(Tail(s))

\* Vec::drain(a..b): removes the elements at the 0-based positions a .. b-1
Drain(s, a, b) == SubSeq(s, 1, a) \o SubSeq(s, b + 1, Len(s))

-----------------------------------------------------------------------------
(* Measurement *)

MeasurementNew(max) == [measures |-> <<>>, avg |-> Rat(0), max |-> max]

MeasurementUpdateNoDivide(m, measurement) ==
    LET kept == IF Len(m.measures) > m.max THEN Drain(m.measures, 0, 0) ELSE m.measures
        pushed == Append(kept, measurement)
    IN  [measures |-> pushed, avg |-> Rat(SumSeq(pushed)), max |-> m.max]

MeasurementUpdateStaleAvg(m, measurement) ==
    LET kept == IF Len(m.measures) > m.max THEN Drain(m.measures, 0, 0) ELSE m.measures
        pushed == Append(kept, measurement)
    IN  [measures |-> pushed,
         avg |-> IF kept = <<>> THEN Rat(0) ELSE [num |-> SumSeq(kept), den |-> Len(kept)],
         max |-> m.max]

MeasurementUpdateEvicting(m, measurement) ==
    LET kept == IF Len(m.measures) >= m.max THEN Drain(m.measures, 0, 1) ELSE m.measures
        pushed == Append(kept, measurement)
    IN  [measures |-> pushed,
         avg |-> [num |-> SumSeq(pushed), den |-> Len(pushed)],
         max |-> m.max]

MeasurementUpdate(m, measurement) ==
    LET kept == IF Len(m.measures) > m.max THEN Drain(m.measures, 0, 0) ELSE m.measures
        pushed == Append(kept, measurement)
    IN  [measures |-> pushed,
         avg |-> [num |-> SumSeq(pushed), den |-> Len(pushed)],
         max |-> m.max]

-----------------------------------------------------------------------------
(* Usage *)

UsageNewBank(intervals) == [i \in 1..Len(intervals) |-> MeasurementNew(intervals[i])]

StartsWith(label, prefix) ==
    Len(label) >= Len(prefix) /\ SubSeq(label, 1, Len(prefix)) = prefix

\* the loop over system.cpus(): the greatest cpu_usage, None when there is no core
RECURSIVE MaxCpuUsage(_, _)
MaxCpuUsage(cpus, acc) ==
    IF cpus = <<>> THEN acc
    ELSE MaxCpuUsage(Tail(cpus),
                     IF acc # <<>>
                     THEN (IF cpus[1] > acc[1] THEN <<cpus[1]>> ELSE acc)
                     ELSE <<cpus[1]>>)

\* the loop over system.components(): the greatest temperature of the matching components
RECURSIVE MaxCpuTemps(_, _)
MaxCpuTemps(components, acc) ==
    IF components = <<>> THEN acc
    ELSE LET c == components[1]
         IN  MaxCpuTemps(Tail(components),
                         IF StartsWith(c.label, CPU_COMPONENT_LABEL)
                            /\ (acc = <<>> \/ c.temperature > acc[1])
                         THEN <<c.temperature>> ELSE acc)

\* the same loop: the local min_cpu_max, started from self.max_temp
RECURSIVE MinCpuMax(_, _)
MinCpuMax(components, acc) ==
    IF components = <<>> THEN acc
    ELSE LET c == components[1]
         IN  MinCpuMax(Tail(components),
                       IF StartsWith(c.label, CPU_COMPONENT_LABEL)
                          /\ (acc = <<>> \/ c.max < acc[1])
                       THEN <<c.max>> ELSE acc)

UpdateBankDefaultZero(bank, sample) ==
    [i \in 1..Len(bank) |->
        MeasurementUpdate(bank[i], IF sample # <<>> THEN sample[1] ELSE 0)]

UpdateBankFirstOnly(bank, sample) ==
    IF sample # <<>>
    THEN [i \in 1..Len(bank) |->
            IF i = 1 THEN MeasurementUpdate(bank[i], sample[1]) ELSE bank[i]]
    ELSE bank

UpdateBank(bank, sample) ==
    IF sample # <<>>
    THEN [i \in 1..Len(bank) |-> MeasurementUpdate(bank[i], sample[1])]
    ELSE bank

UsageUpdateStoresCeiling(u, cpus, components) ==
    LET max_cpu_usage == MaxCpuUsage(cpus, <<>>)
        max_cpu_temps == MaxCpuTemps(components, <<>>)
        min_cpu_max == MinCpuMax(components, u.max_temp)
    IN  [cpu |-> UpdateBank(u.cpu, max_cpu_usage),
         temperature |-> UpdateBank(u.temperature, max_cpu_temps),
         max_temp |-> min_cpu_max]

\* Usage::update on the readings of this refresh; min_cpu_max is computed and dropped
UsageUpdate(u, cpus, components) ==
    LET max_cpu_usage == MaxCpuUsage(cpus, <<>>)
        max_cpu_temps == MaxCpuTemps(components, <<>>)
        min_cpu_max == MinCpuMax(components, u.max_temp)
    IN  [cpu |-> UpdateBank(u.cpu, max_cpu_usage),
         temperature |-> UpdateBank(u.temperature, max_cpu_temps),
         max_temp |-> u.max_temp]

-----------------------------------------------------------------------------
(* FanControl *)

\* update_fan(state): fan_on becomes Some(state)
UpdateFan(state) == IF state THEN "On" ELSE "Off"

\* "Find maximum temperature to use"
EffectiveMaxTemp(mt) ==
    IF mt # <<>> /\ mt[1] < max_fan_on_temp THEN mt[1] ELSE max_fan_on_temp

AnyTempFlipped(bank, mt) ==
    \E i \in 1..Len(bank) : RatGT(Rat(EffectiveMaxTemp(mt)), bank[i].avg)

\* "Any temperature above maximum?"
AnyTempAbove(bank, mt) ==
    \E i \in 1..Len(bank) : RatGT(bank[i].avg, Rat(EffectiveMaxTemp(mt)))

AnyCpuAboveTempLimit(bank) ==
    \E i \in 1..Len(bank) : RatGT(bank[i].avg, Rat(max_fan_on_temp))

\* "CPU Usage > max"
AnyCpuAbove(bank) ==
    \E i \in 1..Len(bank) : RatGT(bank[i].avg, Rat(max_fan_on_cpu))

\* temperature.first() and temperature.get(len / 2), mapped to their measurement()
First(bank) == IF Len(bank) = 0 THEN <<>> ELSE <<bank[1].avg>>
Middle(bank) ==
    LET k == Len(bank) \div 2
    IN  IF k < Len(bank) THEN <<bank[k + 1].avg>> ELSE <<>>

HystereticOnOrEqual(bank) ==
    LET first == First(bank)
        middle == Middle(bank)
    IN  /\ first # <<>>
        /\ RatGT(first[1], Half(max_fan_on_temp))
        /\ middle # <<>>
        /\ ~RatGT(middle[1], first[1])

\* "Latest rolling average > max / 2 && > next rolling"
HystereticOn(bank) ==
    LET first == First(bank)
        middle == Middle(bank)
    IN  /\ first # <<>>
        /\ RatGT(first[1], Half(max_fan_on_temp))
        /\ middle # <<>>
        /\ RatGT(first[1], middle[1])

DecideKeepsUnknown(prev, u) ==
    IF AnyTempAbove(u.temperature, u.max_temp) THEN UpdateFan(TRUE)
    ELSE IF AnyCpuAbove(u.cpu) THEN UpdateFan(TRUE)
    ELSE IF prev # "Unknown"
         THEN UpdateFan(HystereticOn(u.temperature))
         ELSE prev

DecideUnusedOn(prev, u) ==
    IF AnyTempAbove(u.temperature, u.max_temp) THEN UpdateFan(TRUE)
    ELSE IF AnyCpuAbove(u.cpu) THEN UpdateFan(TRUE)
    ELSE IF prev # "Unknown"
         THEN UpdateFan(HystereticOn(u.temperature))
         ELSE UpdateFan(TRUE)

\* the decision of FanControl::update, taken on the refreshed usage
Decide(prev, u) ==
    IF AnyTempAbove(u.temperature, u.max_temp) THEN UpdateFan(TRUE)
    ELSE IF AnyCpuAbove(u.cpu) THEN UpdateFan(TRUE)
    ELSE IF prev # "Unknown"
         THEN UpdateFan(HystereticOn(u.temperature))
         ELSE UpdateFan(FALSE)   \* "Fan's not been used yet, turn it off"

-----------------------------------------------------------------------------
(* What the metrics provider may report on one refresh *)

CpuReadings == { <<>>, <<0>>, <<0, 0>>, <<0, 50>>, <<50, 0>> }

Component(label, temp, max) == [label |-> label, temperature |-> temp, max |-> max]

ComponentReadings ==
    { <<>>,
      << Component("acpitz", 40, 90) >>,
      << Component("coretemp Package id 0", 10, 80) >>,
      << Component("coretemp Core 0", 40, 80), Component("coretemp Core 1", 10, 25) >>,
      << Component("coretemp Core 0", 10, 80), Component("acpitz", 40, 20) >> }

FlatTemps == {0, 10, 15}

-----------------------------------------------------------------------------
(* The program *)

\* System::new_all(): nothing of it is read before the first refresh of Usage::update
SystemNew == [cpus |-> <<>>, components |-> <<>>]

Free == [phase |-> "free", flat |-> 0]

Init ==
    /\ cpu = UsageNewBank(cpu_intervals)
    /\ temperature = UsageNewBank(temp_intervals)
    /\ max_temp = <<>>
    /\ system = SystemNew
    /\ fan_on = "Unknown"
    /\ fan_output = <<>>
    /\ pc = "new"
    /\ ticks = 0
    /\ cpu_fed = <<>>
    /\ temp_fed = <<>>
    /\ scenario = Free

FanControlNewRetry ==
    /\ pc \in {"new", "panicked"}
    /\ \E acquired \in BOOLEAN : pc' = IF acquired THEN "update" ELSE "panicked"
    /\ UNCHANGED <<cpu, temperature, max_temp, system, fan_on, fan_output, ticks,
                   cpu_fed, temp_fed, scenario>>

\* FanControl::new(..).unwrap(): the chip and the line are acquired, or main panics
FanControlNew ==
    /\ pc = "new"
    /\ \E acquired \in BOOLEAN : pc' = IF acquired THEN "update" ELSE "panicked"
    /\ UNCHANGED <<cpu, temperature, max_temp, system, fan_on, fan_output, ticks,
                   cpu_fed, temp_fed, scenario>>

\* fan_control.update() with the readings of this refresh
UpdateWith(cpus, components) ==
    LET u == UsageUpdate([cpu |-> cpu, temperature |-> temperature, max_temp |-> max_temp],
                         cpus, components)
    IN  /\ cpu' = u.cpu
        /\ temperature' = u.temperature
        /\ max_temp' = u.max_temp
        /\ system' = [cpus |-> cpus, components |-> components]
        /\ fan_on' = Decide(fan_on, u)
        /\ cpu_fed' = cpu_fed \o MaxCpuUsage(cpus, <<>>)
        /\ temp_fed' = temp_fed \o MaxCpuTemps(components, <<>>)
        /\ ticks' = ticks + 1
        /\ pc' = "verbose"
        /\ UNCHANGED fan_output

Update ==
    /\ pc = "update"
    /\ ticks < MaxTicks
    /\ \E cpus \in CpuReadings, components \in ComponentReadings :
           UpdateWith(cpus, components)
    /\ UNCHANGED scenario

\* verbose(&fan_control): prints the measurements and the fan state
Verbose ==
    /\ pc = "verbose"
    /\ pc' = "sleep"
    /\ UNCHANGED <<cpu, temperature, max_temp, system, fan_on, fan_output, ticks,
                   cpu_fed, temp_fed, scenario>>

\* std::thread::sleep(Duration::from_secs(1)), then the next iteration of the loop
Sleep ==
    /\ pc = "sleep"
    /\ pc' = "update"
    /\ UNCHANGED <<cpu, temperature, max_temp, system, fan_on, fan_output, ticks,
                   cpu_fed, temp_fed, scenario>>

Next == FanControlNew \/ Update \/ Verbose \/ Sleep

Spec == Init /\ [][Next]_vars

-----------------------------------------------------------------------------
(* The end-to-end run: intervals [3,10,60] for both signals, the temperature  *)
(* flat below max_fan_on_temp / 2, utilisation 0 on every tick but one, which *)
(* reports 50 on one core.                                                    *)

scenario_intervals == <<3, 10, 60>>

FlatComponents(t) == << Component("coretemp Package id 0", t, 80) >>

InitScenario ==
    /\ cpu = UsageNewBank(scenario_intervals)
    /\ temperature = UsageNewBank(scenario_intervals)
    /\ max_temp = <<>>
    /\ system = SystemNew
    /\ fan_on = "Unknown"
    /\ fan_output = <<>>
    /\ pc = "new"
    /\ ticks = 0
    /\ cpu_fed = <<>>
    /\ temp_fed = <<>>
    /\ \E t \in FlatTemps : scenario = [phase |-> "pre", flat |-> t]

\* a tick with utilisation 0, before or after the spike
ScenarioQuiet ==
    /\ pc = "update"
    /\ \/ scenario.phase = "pre" /\ ticks < MaxPre
       \/ scenario.phase = "post" /\ ticks < MaxScenarioTicks
    /\ UpdateWith(<<0, 0>>, FlatComponents(scenario.flat))
    /\ UNCHANGED scenario

\* the one tick with utilisation 50
ScenarioSpike ==
    /\ pc = "update"
    /\ scenario.phase = "pre"
    /\ UpdateWith(<<0, 50>>, FlatComponents(scenario.flat))
    /\ scenario' = [scenario EXCEPT !.phase = "post"]

NextScenario == FanControlNew \/ ScenarioQuiet \/ ScenarioSpike \/ Verbose \/ Sleep

\* the loop of main never stops: every step that can be taken is taken
SpecScenario == InitScenario /\ [][NextScenario]_vars /\ WF_vars(NextScenario)

-----------------------------------------------------------------------------
(* Vocabulary of the properties *)

Banks == <<cpu, temperature>>
Fed == <<cpu_fed, temp_fed>>

Min(a, b) == IF a < b THEN a ELSE b
LastK(s, k) == SubSeq(s, Len(s) - k + 1, Len(s))

\* a step that is one call of FanControl::update
UpdateStep == pc = "update" /\ pc' = "verbose"

HeatTrip ==
    \E i \in 1..Len(temperature) :
        RatGT(temperature[i].avg, Rat(EffectiveMaxTemp(max_temp)))

LoadTrip ==
    \E i \in 1..Len(cpu) : RatGT(cpu[i].avg, Rat(max_fan_on_cpu))

\* shortest > max_fan_on_temp / 2 and shortest > middle, on the temperature bank
Rising ==
    LET shortest == temperature[1].avg
        middle == temperature[(Len(temperature) \div 2) + 1].avg
    IN  /\ RatGT(shortest, Half(max_fan_on_temp))
        /\ RatGT(shortest, middle)

-----------------------------------------------------------------------------
(* C1: whenever, after the refresh of a tick, some temperature average is    *)
(* strictly above the effective maximum temperature, the tick leaves the fan *)
(* On, whatever the fan state was before and whatever the cpu averages are.  *)
C1_HeatTripTurnsOn ==
    [][UpdateStep /\ HeatTrip' => fan_on' = "On"]_vars

\* a tick ended On by heat alone: every cpu sample so far is 0, the fan was decided before
C1_Witness ==
    /\ pc = "verbose" /\ ticks >= 2
    /\ HeatTrip
    /\ cpu_fed # <<>> /\ \A i \in 1..Len(cpu) : cpu[i].avg.num = 0
    /\ fan_on = "On"

(* C2: whenever, after the refresh of a tick, no temperature average is      *)
(* above the effective maximum but some cpu average is strictly above        *)
(* max_fan_on_cpu, the tick leaves the fan On, whatever it was before.       *)
C2_LoadTripTurnsOn ==
    [][UpdateStep /\ ~HeatTrip' /\ LoadTrip' => fan_on' = "On"]_vars

C2_Witness ==
    /\ pc = "verbose" /\ ticks >= 2
    /\ ~HeatTrip /\ LoadTrip
    /\ temp_fed # <<>>
    /\ fan_on = "On"

(* C3: on a tick where neither hard trip fires and the fan was On or Off     *)
(* before, the fan is On afterwards exactly when the shortest-interval       *)
(* temperature average is strictly above max_fan_on_temp / 2 and strictly    *)
(* above the average at the middle position; otherwise it is Off.            *)
C3_HystereticRelease ==
    [][UpdateStep /\ fan_on # "Unknown" /\ ~HeatTrip' /\ ~LoadTrip'
         => /\ fan_on' \in {"On", "Off"}
            /\ (fan_on' = "On") <=> Rising']_vars

\* released although the shortest average is above half the maximum: it does not exceed the middle one
C3_Witness ==
    /\ pc = "verbose" /\ ticks >= 2
    /\ ~HeatTrip /\ ~LoadTrip
    /\ RatGT(temperature[1].avg, Half(max_fan_on_temp))
    /\ fan_on = "Off"

(* C4: every iteration of the loop of main drives the output line once with  *)
(* the decided state: when the iteration reaches its sleep, the line carries *)
(* true for On and false for Off.                                            *)
C4_OutputDrivenEveryTick ==
    pc = "sleep" => fan_output = << (fan_on = "On") >>

(* C5: no measurement ever retains more samples than its interval.           *)
C5_BoundedWindow ==
    \A b \in 1..2 : \A i \in 1..Len(Banks[b]) :
        Len(Banks[b][i].measures) <= Banks[b][i].max

(* C6: after its n-th update a measurement of interval c holds the exact     *)
(* mean of the last min(n, c) samples it was fed.                            *)
C6_SlidingMean ==
    \A b \in 1..2 : \A i \in 1..Len(Banks[b]) :
        LET n == Len(Fed[b])
            k == Min(n, Banks[b][i].max)
            avg == Banks[b][i].avg
        IN  n >= 1 => SumSeq(LastK(Fed[b], k)) * avg.den = avg.num * k

(* C7: once the last c samples fed to a measurement of interval c are all    *)
(* the same value v, its average is exactly v, whatever was fed before.      *)
C7_ConstantConvergence ==
    \A b \in 1..2 : \A i \in 1..Len(Banks[b]) :
        LET c == Banks[b][i].max
            avg == Banks[b][i].avg
        IN  Len(Fed[b]) >= c /\ (\A j \in 1..c : LastK(Fed[b], c)[j] = Fed[b][Len(Fed[b])])
                => RatEq(avg, Rat(Fed[b][Len(Fed[b])]))

(* C8: in the end-to-end run, the tick that samples utilisation 50 leaves    *)
(* the fan On, however many ticks of utilisation 0 came before it.           *)
C8_SpikeTripsImmediately ==
    (pc = "verbose" /\ cpu_fed # <<>> /\ cpu_fed[Len(cpu_fed)] = 50) => fan_on = "On"

(* C9: in the end-to-end run, once the tick with utilisation 50 has turned   *)
(* the fan On, the later ticks (utilisation 0, flat temperature) eventually  *)
(* turn it Off and it stays Off from then on.                                *)
C9_ReleaseAfterSpike ==
    [](scenario.phase = "post" /\ fan_on = "On" => <>[](fan_on = "Off"))

\* the spike did turn the fan On, and a later quiet tick has released it
C9_Witness ==
    /\ scenario.phase = "post"
    /\ \E j \in 1..Len(cpu_fed) :
           /\ cpu_fed[j] = 50
           /\ 50 > 10 * j
           /\ j < Len(cpu_fed)
    /\ fan_on = "Off"

(* C10: the first tick, taken with the fan state Unknown, ends Off when no   *)
(* hard trip fires; it never ends On and never leaves the state Unknown.     *)
C10_UnknownDefaultsOff ==
    [][UpdateStep /\ fan_on = "Unknown" /\ ~HeatTrip' /\ ~LoadTrip'
         => fan_on' = "Off"]_vars

C10_Witness ==
    /\ pc = "verbose" /\ ticks = 1
    /\ ~HeatTrip /\ ~LoadTrip
    /\ temp_fed # <<>> /\ cpu_fed # <<>>
    /\ fan_on = "Off"

-----------------------------------------------------------------------------
(* Vocabulary of the properties about what a refresh read *)

\* the components of the last refresh whose label starts with "coretemp"
Matching ==
    { j \in 1..Len(system.components) :
        StartsWith(system.components[j].label, CPU_COMPONENT_LABEL) }

SetMax(S) == CHOOSE x \in S : \A y \in S : y <= x
SetMin(S) == CHOOSE x \in S : \A y \in S : x <= y

CoreUsages == { system.cpus[j] : j \in 1..Len(system.cpus) }
MatchingTemps == { system.components[j].temperature : j \in Matching }
MatchingMaxes == { system.components[j].max : j \in Matching }

IsSuffix(s, t) == Len(s) <= Len(t) /\ s = SubSeq(t, Len(t) - Len(s) + 1, Len(t))

-----------------------------------------------------------------------------
(* C11: fan_on is Unknown exactly while FanControl::update has never been    *)
(* called; after every call it is On or Off, and it never becomes Unknown    *)
(* again.                                                                    *)
C11_TriState ==
    /\ ticks = 0 => fan_on = "Unknown"
    /\ ticks > 0 => fan_on \in {"On", "Off"}

\* On after the first tick (utilisation 50), Off after a later one
C11_Witness ==
    /\ ticks >= 2 /\ pc = "sleep"
    /\ cpu_fed # <<>> /\ cpu_fed[1] = 50 /\ Len(cpu_fed) = ticks
    /\ fan_on = "Off"

(* C12: after a tick whose refresh reported at least one component with the  *)
(* "coretemp" label prefix, max_temp is known and is the minimum of its      *)
(* value before the tick (if known) and the smallest max of those components.*)
C12_CeilingRecorded ==
    [][UpdateStep /\ Matching' # {}
         => /\ max_temp' # <<>>
            /\ max_temp'[1] = SetMin(MatchingMaxes'
                                     \cup {max_temp[j] : j \in 1..Len(max_temp)})]_vars

(* C14: a tick whose refresh reports no matching component leaves every      *)
(* temperature measurement as it was, and still feeds the cpu measurements   *)
(* when cores are reported; a tick whose refresh reports no core leaves      *)
(* every cpu measurement as it was, and still feeds the temperature          *)
(* measurements when a component matches.  The decision is On or Off.        *)
C14_MissingDataLeavesBank ==
    [][UpdateStep
         => /\ Matching' = {} => temperature' = temperature
            /\ Matching' # {} =>
                 \A i \in 1..Len(temperature) :
                     Len(temperature'[i].measures) = Len(temperature[i].measures) + 1
            /\ system'.cpus = <<>> => cpu' = cpu
            /\ system'.cpus # <<>> =>
                 \A i \in 1..Len(cpu) :
                     Len(cpu'[i].measures) = Len(cpu[i].measures) + 1
            /\ fan_on' \in {"On", "Off"}]_vars

\* a tick without a matching component (one non-matching component was reported)
\* that fed the cpu bank, after the temperature bank had been fed before
C14_Witness ==
    /\ pc = "verbose"
    /\ Matching = {} /\ system.components # <<>>
    /\ system.cpus # <<>>
    /\ temp_fed # <<>>
    /\ Len(cpu_fed) > Len(temp_fed)
    /\ fan_on \in {"On", "Off"}

(* C15: when FanControl::new fails, main panics before the first tick: no    *)
(* sample was taken, no decision made, fan_on is not set, and nothing runs   *)
(* afterwards (no retry).                                                    *)
C15_FatalStartup ==
    [][/\ pc' = "panicked" =>
            /\ ticks' = 0
            /\ fan_on' = "Unknown"
            /\ cpu_fed' = <<>> /\ temp_fed' = <<>>
            /\ \A i \in 1..Len(cpu') : cpu'[i].measures = <<>>
            /\ \A i \in 1..Len(temperature') : temperature'[i].measures = <<>>
       /\ pc = "panicked" => pc' = "panicked"]_vars

C15_Witness ==
    pc = "panicked" /\ ticks = 0 /\ fan_on = "Unknown"

(* C16: a measurement that has been updated holds at least one sample and    *)
(* its avg is the sum of the samples it retains divided by their number; a   *)
(* measurement never updated has avg 0.                                      *)
C16_AverageConsistency ==
    \A b \in 1..2 : \A i \in 1..Len(Banks[b]) :
        LET m == Banks[b][i]
        IN  IF Fed[b] = <<>>
            THEN m.avg.num = 0 /\ m.avg.den = 1
            ELSE /\ Len(m.measures) >= 1
                 /\ m.avg.num * Len(m.measures) = SumSeq(m.measures) * m.avg.den

\* one bank updated with differing samples, the other never updated
C16_Witness ==
    /\ Len(cpu_fed) >= 2 /\ cpu_fed[1] # cpu_fed[2]
    /\ temp_fed = <<>>
    /\ cpu[1].avg.num # 0

(* C17: max_temp is None in every reachable state, so the maximum            *)
(* temperature used by every decision is max_fan_on_temp, whatever max the   *)
(* components report.                                                        *)
C17_StaticCeiling ==
    /\ max_temp = <<>>
    /\ EffectiveMaxTemp(max_temp) = max_fan_on_temp

\* a matching component reported a max below max_fan_on_temp on the last tick
C17_Witness ==
    /\ pc = "verbose"
    /\ Matching # {}
    /\ SetMin(MatchingMaxes) < max_fan_on_temp
    /\ max_temp = <<>>

(* C18: a tick that updates a bank passes one and the same sample to every   *)
(* measurement of the bank, the greatest usage over the cores or the         *)
(* greatest temperature over the matching components; every measurement of  *)
(* a bank has seen the same samples, and the banks keep the configured       *)
(* order of intervals.                                                       *)
C18_LockStep ==
    [][UpdateStep
         => /\ \A b \in 1..2 : \A i \in 1..Len(Banks'[b]) :
                 /\ IsSuffix(Banks'[b][i].measures, Fed'[b])
                 /\ Len(Banks'[b][i].measures) >= Min(Len(Fed'[b]), Banks'[b][i].max)
            /\ system'.cpus # <<>> =>
                 /\ cpu_fed' = Append(cpu_fed, SetMax(CoreUsages'))
                 /\ \A i \in 1..Len(cpu') :
                        /\ cpu'[i].measures # <<>>
                        /\ cpu'[i].measures[Len(cpu'[i].measures)] = SetMax(CoreUsages')
            /\ Matching' # {} =>
                 /\ temp_fed' = Append(temp_fed, SetMax(MatchingTemps'))
                 /\ \A i \in 1..Len(temperature') :
                        /\ temperature'[i].measures # <<>>
                        /\ temperature'[i].measures[Len(temperature'[i].measures)]
                               = SetMax(MatchingTemps')
            /\ \A i \in 1..Len(cpu') : cpu'[i].max = cpu_intervals[i]
            /\ \A i \in 1..Len(temperature') : temperature'[i].max = temp_intervals[i]]_vars

\* several cores and several components, the greatest reading not the first one
C18_Witness ==
    /\ pc = "verbose"
    /\ Len(system.cpus) >= 2 /\ system.cpus[1] < SetMax(CoreUsages)
    /\ Cardinality(Matching) >= 2
    /\ Len(cpu_fed) >= 2 /\ Len(temp_fed) >= 2
    /\ cpu[3].measures = cpu_fed /\ temperature[3].measures = temp_fed

(* C19: the averages of one bank are always equal to each other, so after    *)
(* any tick the fan is On exactly when a hard trip (heat or load) holds on   *)
(* that tick: hysteresis never keeps it On.                                  *)
C19_NoHystereticHold ==
    /\ \A b \in 1..2 : \A i, j \in 1..Len(Banks[b]) :
           RatEq(Banks[b][i].avg, Banks[b][j].avg)
    /\ ticks > 0 => (fan_on = "On" <=> (HeatTrip \/ LoadTrip))

\* more samples than the shortest interval, not all equal; warm but released
C19_Witness ==
    /\ Len(cpu_fed) > cpu[1].max
    /\ cpu_fed[1] # cpu_fed[Len(cpu_fed)]
    /\ Len(temp_fed) >= 2 /\ temp_fed[1] # temp_fed[Len(temp_fed)]
    /\ RatGT(temperature[1].avg, Half(max_fan_on_temp))
    /\ ~HeatTrip /\ ~LoadTrip
    /\ fan_on = "Off"

====
